---- MODULE Spec2Model ----
(***************************************************************************)
(* Verification model of the flexlimit rate limiter contracts:             *)
(*   - RequestContext.Key                       (types.go)                 *)
(*   - AlgorithmType / FallbackStrategy / Config validation                *)
(*                                              (types.go, algorithm.go)   *)
(*   - the error types and wrapContextError     (errors.go)                *)
(*   - the Mock clock and its RWMutex           (clock package)            *)
(*   - the Algorithm.Allow contract over storage.State                     *)
(*   - the composite admission coordinator and the fallback controller,    *)
(*     which the design describes and the sources only declare types for   *)
(* Go strings are TLA+ strings; "+" on strings is \o.                      *)
(***************************************************************************)
EXTENDS Integers, Sequences, FiniteSets, TLC

VARIABLES
    \* RequestContext.Key
    rc,          \* the RequestContext (IP, UserID, Endpoint, SessionID, Custom)
    strategy,    \* the strategy name passed to Key
    key,         \* the string Key returned
    keyPc,       \* "call" before Key ran, "done" after
    \* configuration validation
    cfg,         \* an algorithm.Config
    cfgErr,      \* what cfg.Validate() returned
    name,        \* a string converted to AlgorithmType / FallbackStrategy
    algErr,      \* flexlimit.AlgorithmType(name).Validate()
    algErrPkg,   \* algorithm.AlgorithmType(name).Validate()
    fbErr,       \* flexlimit.FallbackStrategy(name).Validate()
    opts,        \* the *Options built by defaultOptions()
    optsErr,     \* the validation of opts.algorithm and opts.fallbackStrategy
    \* errors
    err,            \* an error value
    errMatches,     \* the sentinels err matches under errors.Is
    wrapped,        \* wrapContextError(err)
    wrappedMatches, \* the sentinels wrapped matches under errors.Is
    \* the Mock clock
    now,         \* Mock.now
    auto,        \* Mock.auto
    step,        \* Mock.step
    mu,          \* Mock.mu, the sync.RWMutex
    pc,          \* per goroutine: the statement of the method it is at
    op,          \* per goroutine: the method it is in and its argument
    local,       \* per goroutine: Now's local variable now
    rets,        \* the Now and Since calls that returned, in order, with their results
    calls,       \* number of calls made so far
    \* the algorithm engines over the storage contract
    acfg,        \* the engine's validated algorithm.Config
    clk,         \* the time the Clock contract's now() returns
    store,       \* the storage backend: RateKey -> storage.State, or absent
    last,        \* the last Allow call: key, cost, state before, results
    \* a second key derivation, to compare with the first
    rc2,         \* the RequestContext of the second derivation
    strategy2,   \* its strategy name
    key2,        \* the string it returned
    keyPc2,      \* "call" before it ran, "done" after
    \* what an observer of the Mock clock has seen (history, not Mock fields)
    disabled,    \* a DisableAutoAdvance returned and no SetAutoAdvance wrote since
    advanced,    \* the sum of the d of the Advance(d) calls that returned
    \* a burst of calls on one token bucket
    burst,       \* its key, whether it has started, and the results so far
    \* the composite admission coordinator
    cclk,        \* the time the Clock contract's now() returns
    cstore,      \* the storage backend: the dimensions' RateKey -> state, or absent
    creq,        \* the request in progress: its dimensions, cost and progress
    \* the fallback controller
    fcfg,        \* its configuration: failure threshold N and fallback strategy
    fb,          \* its state: Closed/Open/HalfOpen, consecutive failures, openedAt
    fclk,        \* the time the Clock contract's now() returns
    freq,        \* per concurrent request: where the controller routed it
    fhist        \* history: trips of the breaker, recoveries, stale failures

keyVars == <<rc, strategy, key, keyPc>>
cfgVars == <<cfg, cfgErr, name, algErr, algErrPkg, fbErr, opts, optsErr>>
errVars == <<err, errMatches, wrapped, wrappedMatches>>
clockVars == <<now, auto, step, mu, pc, op, local, rets, calls>>
algoVars == <<acfg, clk, store, last>>
pairVars == <<rc2, strategy2, key2, keyPc2>>
obsVars == <<disabled, advanced>>
burstVars == <<burst>>
compVars == <<cclk, cstore, creq>>
fbVars == <<fcfg, fb, fclk, freq, fhist>>

vars == <<rc, strategy, key, keyPc,
          cfg, cfgErr, name, algErr, algErrPkg, fbErr, opts, optsErr,
          err, errMatches, wrapped, wrappedMatches,
          now, auto, step, mu, pc, op, local, rets, calls,
          acfg, clk, store, last,
          rc2, strategy2, key2, keyPc2,
          disabled, advanced,
          burst,
          cclk, cstore, creq,
          fcfg, fb, fclk, freq, fhist>>

\* What the actions of one part leave alone: the other parts.
notKeyVars ==
    <<cfgVars, errVars, clockVars, algoVars, pairVars, obsVars, burstVars, compVars, fbVars>>
notCfgVars ==
    <<keyVars, errVars, clockVars, algoVars, pairVars, obsVars, burstVars, compVars, fbVars>>
notErrVars ==
    <<keyVars, cfgVars, clockVars, algoVars, pairVars, obsVars, burstVars, compVars, fbVars>>
notClockObsVars ==
    <<keyVars, cfgVars, errVars, algoVars, pairVars, burstVars, compVars, fbVars>>
notClockVars == <<notClockObsVars, obsVars>>
notAlgoBurstVars ==
    <<keyVars, cfgVars, errVars, clockVars, pairVars, obsVars, compVars, fbVars>>
notAlgoVars == <<notAlgoBurstVars, burstVars>>
notBurstVars ==
    <<keyVars, cfgVars, errVars, clockVars, pairVars, obsVars, compVars, fbVars>>
notCompVars ==
    <<keyVars, cfgVars, errVars, clockVars, algoVars, pairVars, obsVars, burstVars, fbVars>>
notFbVars ==
    <<keyVars, cfgVars, errVars, clockVars, algoVars, pairVars, obsVars, burstVars, compVars>>
notPairVars ==
    <<keyVars, cfgVars, errVars, clockVars, algoVars, obsVars, burstVars, compVars, fbVars>>

\* A nil error / nil pointer.
Nil == [type |-> "nil"]

\* A result that no call has produced yet.
Pending == [type |-> "pending"]

\* The same for a result that is an error chain, and for one that is a set
\* of sentinels.
PendingErr == <<[type |-> "pending"]>>
PendingSet == {"pending"}

(***************************************************************************)
(* RequestContext.Key (types.go)                                           *)
(***************************************************************************)

\* Attribute values: absent (""), ordinary, and one holding the separator.
AttrValues == {"", "a", ":"}

\* Names that may be keys of RequestContext.Custom: an ordinary one, one
\* that shadows a built-in strategy, and one that ends in the separator.
CustomNames == {"tenant", "ip", "ip:"}

\* Strategy names passed to Key: the built-ins, the custom names, an
\* unknown name and the empty name.
StrategyNames ==
    {"ip", "user", "endpoint", "session", "global", "bogus", ""} \cup CustomNames

\* A nil map[string]string: no entries, and isNil set.
NilMap == [isNil |-> TRUE, m |-> [n \in {} |-> ""]]

\* The values RequestContext.Custom may hold: nil, or a map over some names.
CustomMaps ==
    {NilMap} \cup
    {[isNil |-> FALSE, m |-> f] : f \in UNION {[S -> AttrValues] : S \in SUBSET CustomNames}}

RequestContext ==
    [IP : AttrValues, UserID : AttrValues, Endpoint : AttrValues,
     SessionID : AttrValues, Custom : CustomMaps]

\* The default branch of Key's switch: the lookup in rc.Custom.
KeyCustom(c, s) ==
    IF ~c.Custom.isNil /\ s \in DOMAIN c.Custom.m
    THEN s \o ":" \o c.Custom.m[s]
    ELSE ""

\* Key with the custom lookup returning the bare value, without the
\* strategy prefix.
Key_NoCustomPrefix(c, s) ==
    CASE s = "ip"       -> IF c.IP # "" THEN "ip:" \o c.IP ELSE ""
      [] s = "user"     -> IF c.UserID # "" THEN "user:" \o c.UserID ELSE ""
      [] s = "endpoint" -> IF c.Endpoint # "" THEN "endpoint:" \o c.Endpoint ELSE ""
      [] s = "session"  -> IF c.SessionID # "" THEN "session:" \o c.SessionID ELSE ""
      [] s = "global"   -> "global"
      [] OTHER          -> IF ~c.Custom.isNil /\ s \in DOMAIN c.Custom.m
                           THEN c.Custom.m[s] ELSE ""

\* func (rc RequestContext) Key(strategy string) string
Key(c, s) ==
    CASE s = "ip"       -> IF c.IP # "" THEN "ip:" \o c.IP ELSE ""
      [] s = "user"     -> IF c.UserID # "" THEN "user:" \o c.UserID ELSE ""
      [] s = "endpoint" -> IF c.Endpoint # "" THEN "endpoint:" \o c.Endpoint ELSE ""
      [] s = "session"  -> IF c.SessionID # "" THEN "session:" \o c.SessionID ELSE ""
      [] s = "global"   -> "global"
      [] OTHER          -> KeyCustom(c, s)

KeyInit ==
    /\ rc \in RequestContext
    /\ strategy \in StrategyNames
    /\ key = ""
    /\ keyPc = "call"

\* One call of rc.Key(strategy).
KeyCall ==
    /\ keyPc = "call"
    /\ key' = Key(rc, strategy)
    /\ keyPc' = "done"
    /\ UNCHANGED <<rc, strategy>>
    /\ UNCHANGED notKeyVars

\* The key derivation is not running.
KeyIdle ==
    /\ rc = [IP |-> "", UserID |-> "", Endpoint |-> "", SessionID |-> "",
             Custom |-> NilMap]
    /\ strategy = ""
    /\ key = ""
    /\ keyPc = "idle"

\* Attribute values for the comparison of two derivations: ordinary ones,
\* with and without a leading separator.
PairValues == {"a", ":a"}

\* Custom names for it: an ordinary one and one that ends in the separator.
PairNames == {"tenant", "ip:"}

\* The contexts and strategies of the two derivations.
PairContexts ==
    [IP : PairValues, UserID : {"a"}, Endpoint : {""}, SessionID : {""},
     Custom : {NilMap} \cup
              {[isNil |-> FALSE, m |-> f] :
                  f \in UNION {[S -> PairValues] : S \in SUBSET PairNames}}]

PairStrategies == {"ip", "user", "global"} \cup PairNames

\* Two derivations, over the same context or over two.
PairInit ==
    /\ rc \in PairContexts
    /\ strategy \in PairStrategies
    /\ key = ""
    /\ keyPc = "call"
    /\ rc2 \in PairContexts
    /\ strategy2 \in PairStrategies
    /\ key2 = ""
    /\ keyPc2 = "call"

\* One call of rc2.Key(strategy2).
KeyCall2 ==
    /\ keyPc2 = "call"
    /\ key2' = Key(rc2, strategy2)
    /\ keyPc2' = "done"
    /\ UNCHANGED <<rc2, strategy2>>
    /\ UNCHANGED notPairVars

\* There is no second derivation.
PairIdle ==
    /\ rc2 = [IP |-> "", UserID |-> "", Endpoint |-> "", SessionID |-> "",
              Custom |-> NilMap]
    /\ strategy2 = ""
    /\ key2 = ""
    /\ keyPc2 = "idle"

(***************************************************************************)
(* Configuration validation (types.go, algorithm/algorithm.go)             *)
(***************************************************************************)

\* Largest Rate, Window and BurstSize of the configurations tried; the
\* smallest is -1, so that zero and negative values are covered.
MaxField == 2

\* The algorithm names of both packages' AlgorithmType constants.
TokenBucket == "token_bucket"
SlidingWindow == "sliding_window"
FixedWindow == "fixed_window"
LeakyBucket == "leaky_bucket"

\* The FallbackStrategy constants.
AllowAll == "allow_all"
DenyAll == "deny_all"
LocalMemory == "local_memory"

\* Strings converted to AlgorithmType or FallbackStrategy: every constant,
\* the empty string, a wrong case, a near miss and an unknown name.
TypeNames ==
    {TokenBucket, SlidingWindow, FixedWindow, LeakyBucket,
     AllowAll, DenyAll, LocalMemory,
     "", "Token_Bucket", "token_bucket ", "bogus"}

\* type Config struct (package algorithm)
Config ==
    [Rate : -1 .. MaxField, Window : -1 .. MaxField, BurstSize : -1 .. MaxField,
     Algorithm : {TokenBucket, SlidingWindow, FixedWindow, LeakyBucket, "", "bogus"}]

\* &ConfigError{Field, Value, Reason} (package algorithm)
ConfigError(f, v, r) ==
    [type |-> "ConfigError", Field |-> f, Value |-> v, Reason |-> r]

\* &InvalidConfigError{Field, Value, Reason} (package flexlimit)
InvalidConfigError(f, v, r) ==
    [type |-> "InvalidConfigError", Field |-> f, Value |-> v, Reason |-> r]

\* Config.Validate with the window check placed before the rate check.
ConfigValidate_WindowFirst(c) ==
    IF c.Window <= 0 THEN ConfigError("window", c.Window, "must be positive")
    ELSE IF c.Rate <= 0 THEN ConfigError("rate", c.Rate, "must be positive")
    ELSE IF c.BurstSize < 0
         THEN ConfigError("burst_size", c.BurstSize, "cannot be negative")
    ELSE Nil

\* func (c *Config) Validate() error
ConfigValidate(c) ==
    IF c.Rate <= 0 THEN ConfigError("rate", c.Rate, "must be positive")
    ELSE IF c.Window <= 0 THEN ConfigError("window", c.Window, "must be positive")
    ELSE IF c.BurstSize < 0
         THEN ConfigError("burst_size", c.BurstSize, "cannot be negative")
    ELSE Nil

\* func (a AlgorithmType) Validate() error (package flexlimit)
AlgorithmTypeValidate(a) ==
    IF a \in {TokenBucket, SlidingWindow, FixedWindow, LeakyBucket}
    THEN Nil
    ELSE InvalidConfigError("algorithm", a,
           "must be one of: token_bucket, sliding_window, fixed_window, leaky_bucket")

\* The algorithm package's Validate with leaky_bucket left out of the case list.
AlgorithmTypeValidatePkg_NoLeaky(a) ==
    IF a \in {TokenBucket, FixedWindow, SlidingWindow}
    THEN Nil
    ELSE ConfigError("algorithm", a,
           "must be one of: token_bucket, fixed_window, sliding_window, leaky_bucket")

\* func (a AlgorithmType) Validate() error (package algorithm)
AlgorithmTypeValidatePkg(a) ==
    IF a \in {TokenBucket, FixedWindow, SlidingWindow, LeakyBucket}
    THEN Nil
    ELSE ConfigError("algorithm", a,
           "must be one of: token_bucket, fixed_window, sliding_window, leaky_bucket")

\* FallbackStrategy.Validate with allow_all left out of the case list.
FallbackStrategyValidate_NoAllowAll(f) ==
    IF f \in {DenyAll, LocalMemory}
    THEN Nil
    ELSE InvalidConfigError("fallback_strategy", f,
           "must be one of: allow_all, deny_all, local_memory")

\* func (f FallbackStrategy) Validate() error
FallbackStrategyValidate(f) ==
    IF f \in {AllowAll, DenyAll, LocalMemory}
    THEN Nil
    ELSE InvalidConfigError("fallback_strategy", f,
           "must be one of: allow_all, deny_all, local_memory")

\* func defaultOptions() *Options
defaultOptions ==
    [algorithm |-> "token_bucket", fallbackStrategy |-> "allow_all",
     maxKeys |-> 10000, cleanupInterval |-> 5, burstSize |-> 0]

CfgInit ==
    /\ cfg \in Config
    /\ name \in TypeNames
    /\ cfgErr = Pending
    /\ algErr = Pending
    /\ algErrPkg = Pending
    /\ fbErr = Pending
    /\ opts = Nil
    /\ optsErr = Pending

\* No validation is running.
CfgIdle ==
    /\ cfg = [Rate |-> 1, Window |-> 1, BurstSize |-> 0, Algorithm |-> TokenBucket]
    /\ name = TokenBucket
    /\ cfgErr = Pending
    /\ algErr = Pending
    /\ algErrPkg = Pending
    /\ fbErr = Pending
    /\ opts = Nil
    /\ optsErr = Pending

\* cfg.Validate(); the receiver is read, never written.
ConfigValidateCall ==
    /\ cfgErr = Pending
    /\ cfgErr' = ConfigValidate(cfg)
    /\ UNCHANGED <<cfg, name, algErr, algErrPkg, fbErr, opts, optsErr>>
    /\ UNCHANGED notCfgVars

\* flexlimit.AlgorithmType(name).Validate()
AlgorithmTypeValidateCall ==
    /\ algErr = Pending
    /\ algErr' = AlgorithmTypeValidate(name)
    /\ UNCHANGED <<cfg, cfgErr, name, algErrPkg, fbErr, opts, optsErr>>
    /\ UNCHANGED notCfgVars

\* algorithm.AlgorithmType(name).Validate()
AlgorithmTypeValidatePkgCall ==
    /\ algErrPkg = Pending
    /\ algErrPkg' = AlgorithmTypeValidatePkg(name)
    /\ UNCHANGED <<cfg, cfgErr, name, algErr, fbErr, opts, optsErr>>
    /\ UNCHANGED notCfgVars

\* flexlimit.FallbackStrategy(name).Validate()
FallbackStrategyValidateCall ==
    /\ fbErr = Pending
    /\ fbErr' = FallbackStrategyValidate(name)
    /\ UNCHANGED <<cfg, cfgErr, name, algErr, algErrPkg, opts, optsErr>>
    /\ UNCHANGED notCfgVars

\* opts := defaultOptions()
DefaultOptionsCall ==
    /\ opts = Nil
    /\ opts' = defaultOptions
    /\ UNCHANGED <<cfg, cfgErr, name, algErr, algErrPkg, fbErr, optsErr>>
    /\ UNCHANGED notCfgVars

\* AlgorithmType(opts.algorithm).Validate() and
\* FallbackStrategy(opts.fallbackStrategy).Validate() on the built options.
ValidateOptionsCall ==
    /\ opts # Nil
    /\ optsErr = Pending
    /\ optsErr' = [algorithm |-> AlgorithmTypeValidate(opts.algorithm),
                   fallbackStrategy |-> FallbackStrategyValidate(opts.fallbackStrategy)]
    /\ UNCHANGED <<cfg, cfgErr, name, algErr, algErrPkg, fbErr, opts>>
    /\ UNCHANGED notCfgVars

(***************************************************************************)
(* Error values, errors.Is and wrapContextError (errors.go)                *)
(*                                                                         *)
(* An error value is the sequence of the nodes of its chain, outermost     *)
(* first: StorageError nodes wrap the rest of the sequence (their Err      *)
(* field), the other nodes end it.  The nil error is the empty sequence.   *)
(***************************************************************************)

\* Most StorageError nodes nested in one error value.
MaxWrap == 2

\* The package's sentinel errors (each a distinct errors.New value).
ErrRateLimitExceeded == "ErrRateLimitExceeded"
ErrInvalidConfig == "ErrInvalidConfig"
ErrStorageUnavailable == "ErrStorageUnavailable"
ErrKeyNotFound == "ErrKeyNotFound"
ErrContextCanceled == "ErrContextCanceled"
ErrContextDeadlineExceeded == "ErrContextDeadlineExceeded"

PackageSentinels ==
    {ErrRateLimitExceeded, ErrInvalidConfig, ErrStorageUnavailable,
     ErrKeyNotFound, ErrContextCanceled, ErrContextDeadlineExceeded}

\* The standard library's context errors.
ContextCanceled == "context.Canceled"
ContextDeadlineExceeded == "context.DeadlineExceeded"

Sentinel(id) == [type |-> "sentinel", id |-> id]

\* Nodes that end a chain: a sentinel, a context error, a
\* *LimitExceededError or an *InvalidConfigError.
LeafNodes ==
    {Sentinel(id) : id \in PackageSentinels \cup {ContextCanceled, ContextDeadlineExceeded}}
    \cup [type : {"LimitExceededError"}, Key : {"", "k"}, Used : {0, 1}]
    \cup [type : {"InvalidConfigError"}, Field : {"rate", "algorithm"}]

\* errors.Join of two of the context errors and sentinels: a node whose
\* Unwrap returns several errors, so that one value holds both
\* context.Canceled and context.DeadlineExceeded.
JoinNodes ==
    {[type |-> "joinError", ids |-> ids] :
        ids \in {{ContextCanceled, ContextDeadlineExceeded},
                 {ContextDeadlineExceeded, ErrKeyNotFound},
                 {ContextCanceled, ErrStorageUnavailable}}}

\* *StorageError nodes; Err is the rest of the chain.
WrapNodes ==
    [type : {"StorageError"}, Backend : {"redis", "memory"},
     Operation : {"get"}, Key : {"", "k"}]

RECURSIVE WrapChains(_)
\* The sequences of exactly n StorageError nodes.
WrapChains(n) ==
    IF n = 0 THEN {<<>>}
    ELSE {<<w>> \o c : w \in WrapNodes, c \in WrapChains(n - 1)}

\* Every error value built from the package's error types: up to MaxWrap
\* StorageErrors around a leaf or around a nil Err.
ErrorValues ==
    UNION {{w \o l : w \in WrapChains(n), l \in {<<>>} \cup {<<x>> : x \in LeafNodes}}
           : n \in 0 .. MaxWrap}

\* The same with a joined error as the innermost cause.
JoinedValues ==
    UNION {{w \o <<j>> : w \in WrapChains(n), j \in JoinNodes} : n \in 0 .. MaxWrap}

\* The Is methods with StorageError.Is comparing against the wrong sentinel.
NodeIs_WrongStorageSentinel(node, target) ==
    CASE node.type = "LimitExceededError" -> target = ErrRateLimitExceeded
      [] node.type = "InvalidConfigError" -> target = ErrInvalidConfig
      [] node.type = "StorageError"       -> target = ErrKeyNotFound
      [] OTHER                            -> FALSE

\* The Is method of the node, when its type has one.
NodeIs(node, target) ==
    CASE node.type = "LimitExceededError" -> target = ErrRateLimitExceeded
      [] node.type = "InvalidConfigError" -> target = ErrInvalidConfig
      [] node.type = "StorageError"       -> target = ErrStorageUnavailable
      [] OTHER                            -> FALSE

\* The Unwrap method applied to the chain e (non-empty): the error it
\* returns, nil for a node without Unwrap.
Unwrap(e) ==
    CASE e[1].type = "LimitExceededError" -> <<Sentinel(ErrRateLimitExceeded)>>
      [] e[1].type = "InvalidConfigError" -> <<Sentinel(ErrInvalidConfig)>>
      [] e[1].type = "StorageError"       -> Tail(e)
      [] OTHER                            -> <<>>

RECURSIVE ErrorsIs(_, _)
\* errors.Is(e, target) for a sentinel target: walk the chain, at each
\* node compare by identity, then ask its Is method, then unwrap.
ErrorsIs(e, target) ==
    IF e = <<>> THEN FALSE
    ELSE \/ (e[1].type = "sentinel" /\ e[1].id = target)
         \/ (e[1].type = "joinError" /\ target \in e[1].ids)
         \/ NodeIs(e[1], target)
         \/ ErrorsIs(Unwrap(e), target)

\* wrapContextError with the two cases of the switch in the other order.
wrapContextError_DeadlineFirst(e) ==
    IF e = <<>> THEN <<>>
    ELSE IF ErrorsIs(e, ContextDeadlineExceeded)
         THEN <<Sentinel(ErrContextDeadlineExceeded)>>
    ELSE IF ErrorsIs(e, ContextCanceled) THEN <<Sentinel(ErrContextCanceled)>>
    ELSE e

\* func wrapContextError(err error) error
wrapContextError(e) ==
    IF e = <<>> THEN <<>>
    ELSE IF ErrorsIs(e, ContextCanceled) THEN <<Sentinel(ErrContextCanceled)>>
    ELSE IF ErrorsIs(e, ContextDeadlineExceeded)
         THEN <<Sentinel(ErrContextDeadlineExceeded)>>
    ELSE e

\* The sentinels a caller can tell e apart by, with errors.Is.
Matches(e) == {t \in PackageSentinels : ErrorsIs(e, t)}

ErrInit ==
    /\ err \in ErrorValues
    /\ errMatches = PendingSet
    /\ wrapped = PendingErr
    /\ wrappedMatches = PendingSet

\* The errors wrapContextError is given: the package's, and joined ones.
WrapInit ==
    /\ err \in ErrorValues \cup JoinedValues
    /\ errMatches = PendingSet
    /\ wrapped = PendingErr
    /\ wrappedMatches = PendingSet

\* No error is being handled.
ErrIdle ==
    /\ err = <<>>
    /\ errMatches = PendingSet
    /\ wrapped = PendingErr
    /\ wrappedMatches = PendingSet

\* errors.Is(err, s) for every sentinel s of the package.
ErrorsIsCall ==
    /\ errMatches = PendingSet
    /\ errMatches' = Matches(err)
    /\ UNCHANGED <<err, wrapped, wrappedMatches>>
    /\ UNCHANGED notErrVars

\* wrapped := wrapContextError(err)
WrapContextErrorCall ==
    /\ wrapped = PendingErr
    /\ wrapped' = wrapContextError(err)
    /\ UNCHANGED <<err, errMatches, wrappedMatches>>
    /\ UNCHANGED notErrVars

\* errors.Is(wrapped, s) for every sentinel s of the package.
ErrorsIsWrappedCall ==
    /\ wrapped # PendingErr
    /\ wrappedMatches = PendingSet
    /\ wrappedMatches' = Matches(wrapped)
    /\ UNCHANGED <<err, errMatches, wrapped>>
    /\ UNCHANGED notErrVars

(***************************************************************************)
(* The Mock clock (package clock)                                          *)
(*                                                                         *)
(* Goroutines call the methods of one Mock; every lock operation and every *)
(* access of a field is one step.  Times and durations are integers.       *)
(***************************************************************************)

\* Number of goroutines sharing the Mock.
NumProcs == 2

\* Most method calls made in one run.
MaxCalls == 3

\* Largest step passed to SetAutoAdvance.
MaxStep == 1

Procs == 1 .. NumProcs

\* NewMockAt(StartTime)
StartTime == 0

\* The methods of Mock and the arguments they are called with.
Methods == {"Now", "Set", "Advance", "SetAutoAdvance", "DisableAutoAdvance", "Since"}

ArgsOf(m) ==
    CASE m = "Set"            -> {StartTime}
      [] m = "Advance"        -> {1}
      [] m = "SetAutoAdvance" -> 1 .. MaxStep
      [] m = "Since"          -> {0}
      [] OTHER                -> {0}

NoCall == [name |-> "none", arg |-> 0]

\* sync.RWMutex: w is the goroutine that has announced itself as the writer
\* (0 for none), held tells that it is past the departing readers and owns
\* the lock, readers are the goroutines holding the lock in read mode.
Unlocked == [w |-> 0, held |-> FALSE, readers |-> {}]

\* m.mu.RLock(): blocks while a writer holds or waits for the lock.
RLock(g) ==
    /\ mu.w = 0
    /\ mu' = [mu EXCEPT !.readers = @ \cup {g}]

\* m.mu.RUnlock()
RUnlock(g) ==
    /\ g \in mu.readers
    /\ mu' = [mu EXCEPT !.readers = @ \ {g}]

\* m.mu.Lock(), first half: become the one pending writer.
LockAnnounce(g) ==
    /\ mu.w = 0
    /\ mu' = [mu EXCEPT !.w = g]

\* m.mu.Lock(), second half: wait until the readers have left.
LockAcquire(g) ==
    /\ mu.w = g
    /\ ~mu.held
    /\ mu.readers = {}
    /\ mu' = [mu EXCEPT !.held = TRUE]

\* m.mu.Unlock()
Unlock(g) ==
    /\ mu.w = g
    /\ mu.held
    /\ mu' = [mu EXCEPT !.w = 0, !.held = FALSE]

\* g holds the lock in write mode, and nobody else holds it in any mode.
HoldsExclusive(g) == mu.w = g /\ mu.held /\ mu.readers = {}

\* g holds the lock in read or in write mode.
HoldsAny(g) == g \in mu.readers \/ (mu.w = g /\ mu.held)

\* func NewMockAt(t time.Time) *Mock
ClockInit ==
    /\ now = StartTime
    /\ auto = FALSE
    /\ step = 0
    /\ mu = Unlocked
    /\ pc = [g \in Procs |-> "idle"]
    /\ op = [g \in Procs |-> NoCall]
    /\ local = [g \in Procs |-> 0]
    /\ rets = <<>>
    /\ calls = 0

\* The Mock right after SetAutoAdvance(s) returned, for some s > 0.
ClockAutoInit ==
    /\ now = StartTime
    /\ auto = TRUE
    /\ step \in 1 .. MaxStep
    /\ mu = Unlocked
    /\ pc = [g \in Procs |-> "idle"]
    /\ op = [g \in Procs |-> NoCall]
    /\ local = [g \in Procs |-> 0]
    /\ rets = <<>>
    /\ calls = 0

\* No clock is in use.
ClockIdle ==
    /\ now = StartTime
    /\ auto = FALSE
    /\ step = 0
    /\ mu = Unlocked
    /\ pc = [g \in Procs |-> "off"]
    /\ op = [g \in Procs |-> NoCall]
    /\ local = [g \in Procs |-> 0]
    /\ rets = <<>>
    /\ calls = 0

\* The observer has seen nothing yet.
ObsInit ==
    /\ disabled = FALSE
    /\ advanced = 0

\* Goroutine g moves from statement "from" to statement "to".
Goto(g, from, to) ==
    /\ pc[g] = from
    /\ pc' = [pc EXCEPT ![g] = to]

\* The first statement of each method.
Entry(m) == IF m \in {"Now", "Since"} THEN "Now.RLock" ELSE "Lock"

\* Goroutine g calls method m with argument a.
Call(g, m, a) ==
    /\ calls < MaxCalls
    /\ Goto(g, "idle", Entry(m))
    /\ op' = [op EXCEPT ![g] = [name |-> m, arg |-> a]]
    /\ calls' = calls + 1
    /\ UNCHANGED <<now, auto, step, mu, local, rets>>
    /\ UNCHANGED notClockVars

\* Now, line 96: m.mu.RLock()
NowRLock(g) ==
    /\ Goto(g, "Now.RLock", "Now.read")
    /\ RLock(g)
    /\ UNCHANGED <<now, auto, step, op, local, rets, calls>>
    /\ UNCHANGED notClockVars

\* Now, line 99: now := m.now
NowRead(g) ==
    /\ Goto(g, "Now.read", "Now.test")
    /\ local' = [local EXCEPT ![g] = now]
    /\ UNCHANGED <<now, auto, step, mu, op, rets, calls>>
    /\ UNCHANGED notClockVars

\* Now without the lock upgrade: the write of line 105 follows the test
\* directly, under the read lock.
NowTest_WriteUnderRLock(g) ==
    /\ pc[g] = "Now.test"
    /\ pc' = [pc EXCEPT ![g] = IF auto THEN "Now.add" ELSE "Now.return"]
    /\ UNCHANGED <<now, auto, step, mu, op, local, rets, calls>>
    /\ UNCHANGED notClockVars

\* Now, line 101: if m.auto
NowTest(g) ==
    /\ pc[g] = "Now.test"
    /\ pc' = [pc EXCEPT ![g] = IF auto THEN "Now.RUnlock" ELSE "Now.return"]
    /\ UNCHANGED <<now, auto, step, mu, op, local, rets, calls>>
    /\ UNCHANGED notClockVars

\* Now, line 103: m.mu.RUnlock()
NowRUnlock(g) ==
    /\ Goto(g, "Now.RUnlock", "Now.Lock")
    /\ RUnlock(g)
    /\ UNCHANGED <<now, auto, step, op, local, rets, calls>>
    /\ UNCHANGED notClockVars

\* Now, line 104: m.mu.Lock(), announcing
NowLock(g) ==
    /\ Goto(g, "Now.Lock", "Now.LockWait")
    /\ LockAnnounce(g)
    /\ UNCHANGED <<now, auto, step, op, local, rets, calls>>
    /\ UNCHANGED notClockVars

\* Now, line 104: m.mu.Lock(), acquiring
NowLockAcquire(g) ==
    /\ Goto(g, "Now.LockWait", "Now.add")
    /\ LockAcquire(g)
    /\ UNCHANGED <<now, auto, step, op, local, rets, calls>>
    /\ UNCHANGED notClockVars

\* Now adding the step to the time it read at line 99 instead of to m.now.
NowAdd_FromLocal(g) ==
    /\ Goto(g, "Now.add", "Now.Unlock")
    /\ now' = local[g] + step
    /\ UNCHANGED <<auto, step, mu, op, local, rets, calls>>
    /\ UNCHANGED notClockVars

\* Now, line 105: m.now = m.now.Add(m.step)
NowAdd(g) ==
    /\ Goto(g, "Now.add", "Now.Unlock")
    /\ now' = now + step
    /\ UNCHANGED <<auto, step, mu, op, local, rets, calls>>
    /\ UNCHANGED notClockVars

\* Now, line 106: m.mu.Unlock()
NowUnlock(g) ==
    /\ Goto(g, "Now.Unlock", "Now.RLock2")
    /\ Unlock(g)
    /\ UNCHANGED <<now, auto, step, op, local, rets, calls>>
    /\ UNCHANGED notClockVars

\* Now, line 107: m.mu.RLock()
NowRLock2(g) ==
    /\ Goto(g, "Now.RLock2", "Now.return")
    /\ RLock(g)
    /\ UNCHANGED <<now, auto, step, op, local, rets, calls>>
    /\ UNCHANGED notClockVars

\* What the call of g hands back: Now the local now, Since now.Sub(t).
Result(g) ==
    IF op[g].name = "Since" THEN local[g] - op[g].arg ELSE local[g]

\* Now, line 110 and the deferred m.mu.RUnlock() of line 97; for Since,
\* line 172 as well.
NowReturn(g) ==
    /\ Goto(g, "Now.return", "idle")
    /\ RUnlock(g)
    /\ rets' = Append(rets, [name |-> op[g].name, val |-> Result(g)])
    /\ op' = [op EXCEPT ![g] = NoCall]
    /\ local' = [local EXCEPT ![g] = 0]
    /\ UNCHANGED <<now, auto, step, calls>>
    /\ UNCHANGED notClockVars

\* Set, Advance, SetAutoAdvance, DisableAutoAdvance: m.mu.Lock(), announcing
WriterLock(g) ==
    /\ Goto(g, "Lock", "LockWait")
    /\ LockAnnounce(g)
    /\ UNCHANGED <<now, auto, step, op, local, rets, calls>>
    /\ UNCHANGED notClockVars

\* Set, Advance, SetAutoAdvance, DisableAutoAdvance: m.mu.Lock(), acquiring
WriterLockAcquire(g) ==
    /\ Goto(g, "LockWait", "write")
    /\ LockAcquire(g)
    /\ UNCHANGED <<now, auto, step, op, local, rets, calls>>
    /\ UNCHANGED notClockVars

\* Set, line 123: m.now = t
SetWrite(g) ==
    /\ op[g].name = "Set"
    /\ Goto(g, "write", "Unlock")
    /\ now' = op[g].arg
    /\ UNCHANGED <<auto, step, mu, op, local, rets, calls>>
    /\ UNCHANGED notClockVars

\* Advance, line 137: m.now = m.now.Add(d)
AdvanceWrite(g) ==
    /\ op[g].name = "Advance"
    /\ Goto(g, "write", "Unlock")
    /\ now' = now + op[g].arg
    /\ UNCHANGED <<auto, step, mu, op, local, rets, calls>>
    /\ UNCHANGED notClockVars

\* SetAutoAdvance, lines 155-156: m.auto = true; m.step = step
SetAutoAdvanceWrite(g) ==
    /\ op[g].name = "SetAutoAdvance"
    /\ Goto(g, "write", "Unlock")
    /\ auto' = TRUE
    /\ step' = op[g].arg
    /\ disabled' = FALSE
    /\ UNCHANGED <<now, mu, op, local, rets, calls, advanced>>
    /\ UNCHANGED notClockObsVars

\* DisableAutoAdvance, line 163: m.auto = false
DisableAutoAdvanceWrite(g) ==
    /\ op[g].name = "DisableAutoAdvance"
    /\ Goto(g, "write", "Unlock")
    /\ auto' = FALSE
    /\ UNCHANGED <<now, step, mu, op, local, rets, calls>>
    /\ UNCHANGED notClockVars

\* Set, Advance, SetAutoAdvance, DisableAutoAdvance: the deferred
\* m.mu.Unlock(), and the return, which the observer notes.
WriterReturn(g) ==
    /\ Goto(g, "Unlock", "idle")
    /\ Unlock(g)
    /\ op' = [op EXCEPT ![g] = NoCall]
    /\ disabled' = (disabled \/ op[g].name = "DisableAutoAdvance")
    /\ advanced' = IF op[g].name = "Advance" THEN advanced + op[g].arg ELSE advanced
    /\ UNCHANGED <<now, auto, step, local, rets, calls>>
    /\ UNCHANGED notClockObsVars

\* The steps inside Now (and Since, which calls it).
NowStep(g) ==
    \/ NowRLock(g)
    \/ NowRead(g)
    \/ NowTest(g)
    \/ NowRUnlock(g)
    \/ NowLock(g)
    \/ NowLockAcquire(g)
    \/ NowAdd(g)
    \/ NowUnlock(g)
    \/ NowRLock2(g)
    \/ NowReturn(g)

\* The steps inside Advance.
AdvanceStep(g) ==
    \/ WriterLock(g)
    \/ WriterLockAcquire(g)
    \/ AdvanceWrite(g)
    \/ WriterReturn(g)

\* The durations Advance is called with next to Now and Since.
AdvanceDurations == {1, 2}

\* The steps inside the methods that only write.
WriterStep(g) ==
    \/ WriterLock(g)
    \/ WriterLockAcquire(g)
    \/ SetWrite(g)
    \/ AdvanceWrite(g)
    \/ SetAutoAdvanceWrite(g)
    \/ DisableAutoAdvanceWrite(g)
    \/ WriterReturn(g)

(***************************************************************************)
(* The algorithm engines behind Algorithm.Allow, over storage.State        *)
(*                                                                         *)
(* algorithm.go declares the Algorithm interface and storage.State; the    *)
(* four engines follow sections 4.1 to 4.4 of the design.  Times are       *)
(* integer ticks.  Token and level amounts are fractions with denominator  *)
(* Window (one tick refills Rate/Window tokens), so Tokens and Level hold  *)
(* the numerator: the amount times Window.  One Allow is one atomic        *)
(* read-modify-write of its key, as the storage contract requires.         *)
(***************************************************************************)

\* Largest Rate, Window and BurstSize of the engine configurations.
MaxRate == 2
MaxWindow == 2
MaxBurst == 1

\* Largest cost passed to Allow; the smallest is 0, which is invalid.
MaxCost == 2

\* The clock stops advancing at MaxTime.
MaxTime == 2

\* The RateKeys in use.
RateKeys == {"ip:a", "global"}

\* The configurations Config.Validate accepts, with a known algorithm.
EngineConfigs ==
    {c \in [Rate : 1 .. MaxRate, Window : 1 .. MaxWindow, BurstSize : 0 .. MaxBurst,
            Algorithm : {TokenBucket, FixedWindow, SlidingWindow, LeakyBucket}] :
        ConfigValidate(c) = Nil}

\* The capacity without the default: BurstSize as configured.
Capacity_NoDefault(c) == c.BurstSize

\* Bucket capacity: BurstSize, defaulting to Rate when it is zero.
Capacity(c) == IF c.BurstSize = 0 THEN c.Rate ELSE c.BurstSize

\* storage.State with every field zero.
ZeroState ==
    [Tokens |-> 0, LastRefill |-> 0, Count |-> 0, WindowStart |-> 0,
     Timestamps |-> <<>>, Level |-> 0, LastLeak |-> 0]

\* What the store holds for a key: a state, or nothing (Get reports NotFound).
Absent == [exists |-> FALSE, state |-> ZeroState]
Present(st) == [exists |-> TRUE, state |-> st]

Min(a, b) == IF a < b THEN a ELSE b
Max(a, b) == IF a > b THEN a ELSE b

\* The least integer that is at least a / b, for b > 0.
CeilDiv(a, b) == IF a <= 0 THEN 0 ELSE ((a + b - 1) \div b)

\* The state a first call for a key starts from: a full token bucket, an
\* empty window that starts now, no timestamps, an empty leaky bucket.
FreshState(c, t) ==
    [ZeroState EXCEPT !.Tokens = Capacity(c) * c.Window, !.LastRefill = t,
                      !.WindowStart = t, !.LastLeak = t]

\* The state Allow works on: the stored one, or a fresh one on NotFound.
Loaded(c, k, t) == IF store[k].exists THEN store[k].state ELSE FreshState(c, t)

\* Token Bucket lazy refill: tokens = min(burstSize, tokens + elapsed * rate / window),
\* lastRefill = now.
Refilled(c, st, t) ==
    [st EXCEPT !.Tokens = Min(Capacity(c) * c.Window, @ + (t - st.LastRefill) * c.Rate),
               !.LastRefill = t]

\* Token Bucket (4.1): the outcome of allow(key, cost) at time t on state st.
\* The refill is committed on rejection as well.
TokenBucketAllow(c, st, cost, t) ==
    LET r == Refilled(c, st, t)
        need == cost * c.Window
    IN  IF r.Tokens >= need
        THEN [allowed |-> TRUE, err |-> "none", persist |-> TRUE,
              state |-> [r EXCEPT !.Tokens = @ - need],
              remaining |-> (r.Tokens - need) \div c.Window, retryAfter |-> 0]
        ELSE [allowed |-> FALSE, err |-> "none", persist |-> TRUE,
              state |-> r,
              remaining |-> r.Tokens \div c.Window,
              retryAfter |-> CeilDiv(need - r.Tokens, c.Rate)]

\* Fixed Window (4.2): a window that has ended is replaced by one starting now.
Rolled(c, st, t) ==
    IF t >= st.WindowStart + c.Window
    THEN [st EXCEPT !.Count = 0, !.WindowStart = t]
    ELSE st

FixedWindowAllow(c, st, cost, t) ==
    LET r == Rolled(c, st, t)
    IN  IF r.Count + cost <= c.Rate
        THEN [allowed |-> TRUE, err |-> "none", persist |-> TRUE,
              state |-> [r EXCEPT !.Count = @ + cost],
              remaining |-> c.Rate - (r.Count + cost), retryAfter |-> 0]
        ELSE [allowed |-> FALSE, err |-> "none", persist |-> FALSE,
              state |-> st,
              remaining |-> c.Rate - r.Count,
              retryAfter |-> r.WindowStart + c.Window - t]

\* Sliding Window (4.3): the timestamps older than now - window are dropped.
Pruned(c, st, t) ==
    [st EXCEPT !.Timestamps = SelectSeq(@, LAMBDA x : x > t - c.Window)]

\* cost copies of the timestamp t.
Copies(cost, t) == [i \in 1 .. cost |-> t]

\* The pruning is committed on every read, admitted or not.
SlidingWindowAllow(c, st, cost, t) ==
    LET r == Pruned(c, st, t)
    IN  IF Len(r.Timestamps) + cost <= c.Rate
        THEN [allowed |-> TRUE, err |-> "none", persist |-> TRUE,
              state |-> [r EXCEPT !.Timestamps = @ \o Copies(cost, t)],
              remaining |-> c.Rate - (Len(r.Timestamps) + cost), retryAfter |-> 0]
        ELSE [allowed |-> FALSE, err |-> "none", persist |-> TRUE,
              state |-> r,
              remaining |-> c.Rate - Len(r.Timestamps),
              retryAfter |-> IF r.Timestamps = <<>> THEN 0
                             ELSE r.Timestamps[1] + c.Window - t]

\* Leaky Bucket (4.4): level decremented by elapsed * rate, floored at 0.
Leaked(c, st, t) ==
    [st EXCEPT !.Level = Max(0, @ - (t - st.LastLeak) * c.Rate), !.LastLeak = t]

LeakyBucketAllow(c, st, cost, t) ==
    LET r == Leaked(c, st, t)
        add == cost * c.Window
        cap == Capacity(c) * c.Window
    IN  IF r.Level + add <= cap
        THEN [allowed |-> TRUE, err |-> "none", persist |-> TRUE,
              state |-> [r EXCEPT !.Level = @ + add],
              remaining |-> (cap - (r.Level + add)) \div c.Window, retryAfter |-> 0]
        ELSE [allowed |-> FALSE, err |-> "none", persist |-> FALSE,
              state |-> st,
              remaining |-> (cap - r.Level) \div c.Window,
              retryAfter |-> CeilDiv(r.Level + add - cap, c.Rate)]

\* The engine the configuration selects.
EngineAllow(c, st, cost, t) ==
    CASE c.Algorithm = TokenBucket   -> TokenBucketAllow(c, st, cost, t)
      [] c.Algorithm = FixedWindow   -> FixedWindowAllow(c, st, cost, t)
      [] c.Algorithm = SlidingWindow -> SlidingWindowAllow(c, st, cost, t)
      [] c.Algorithm = LeakyBucket   -> LeakyBucketAllow(c, st, cost, t)

\* A call that fails fast: no decision, no state mutation.
Rejected(st, e) ==
    [allowed |-> FALSE, err |-> e, persist |-> FALSE, state |-> st,
     remaining |-> 0, retryAfter |-> 0]

\* allow(key, cost): cost <= 0 is a programmer error, a cost above the
\* token bucket's capacity can never be admitted; both fail fast.
AllowOutcome(c, st, cost, t) ==
    IF cost <= 0 THEN Rejected(st, "invalid_cost")
    ELSE IF c.Algorithm = TokenBucket /\ cost > Capacity(c)
         THEN Rejected(st, "cost_exceeds_capacity")
    ELSE EngineAllow(c, st, cost, t)

NoAllow ==
    [key |-> "", cost |-> 0, before |-> Absent, allowed |-> FALSE, err |-> "no_call",
     remaining |-> 0, retryAfter |-> 0, at |-> 0]

AlgoInit ==
    /\ acfg \in EngineConfigs
    /\ clk = 0
    /\ store = [k \in RateKeys |-> Absent]
    /\ last = NoAllow

\* No engine is running.
AlgoIdle ==
    /\ acfg = [Rate |-> 1, Window |-> 1, BurstSize |-> 0, Algorithm |-> TokenBucket]
    /\ clk = 0
    /\ store = [k \in RateKeys |-> Absent]
    /\ last = NoAllow

\* Time passes.
Tick ==
    /\ clk < MaxTime
    /\ clk' = clk + 1
    /\ UNCHANGED <<acfg, store, last>>
    /\ UNCHANGED notAlgoVars

\* The read-modify-write of allow(k, cost) on the store.
AllowStep(k, cost) ==
    LET out == AllowOutcome(acfg, Loaded(acfg, k, clk), cost, clk)
    IN  /\ store' = IF out.persist THEN [store EXCEPT ![k] = Present(out.state)]
                    ELSE store
        /\ last' = [key |-> k, cost |-> cost, before |-> store[k],
                    allowed |-> out.allowed, err |-> out.err,
                    remaining |-> out.remaining, retryAfter |-> out.retryAfter,
                    at |-> clk]
        /\ UNCHANGED <<acfg, clk>>
        /\ UNCHANGED notAlgoBurstVars

\* Algorithm.Allow(ctx, k, cost)
Allow(k, cost) ==
    /\ AllowStep(k, cost)
    /\ UNCHANGED burst

\* Algorithm.Reset(ctx, k): clears all state of the key; idempotent.
Reset(k) ==
    /\ store' = [store EXCEPT ![k] = Absent]
    /\ last' = NoAllow
    /\ UNCHANGED <<acfg, clk>>
    /\ UNCHANGED notAlgoVars

(***************************************************************************)
(* A burst on one token bucket                                             *)
(*                                                                         *)
(* Some calls and some time bring the bucket of one key to any state; once *)
(* it is full a burst starts: calls of cost 1 with the clock standing at   *)
(* t0 = clk.                                                               *)
(***************************************************************************)

NoBurst == [key |-> "", started |-> FALSE, results |-> <<>>]

\* There is no burst.
BurstIdle == burst = NoBurst

\* A Token Bucket engine, and the key the burst will be on.
BurstInit ==
    /\ acfg \in {c \in EngineConfigs : c.Algorithm = TokenBucket}
    /\ clk = 0
    /\ store = [k \in RateKeys |-> Absent]
    /\ last = NoAllow
    /\ burst \in {[key |-> k, started |-> FALSE, results |-> <<>>] : k \in RateKeys}

\* The bucket of key k holds burstSize tokens at time t.
FullBucket(c, k, t) ==
    Refilled(c, Loaded(c, k, t), t).Tokens = Capacity(c) * c.Window

\* Before the burst: time passes.
BurstTick ==
    /\ ~burst.started
    /\ Tick

\* Before the burst: a call of any valid cost on the key.
BurstPrefixAllow ==
    /\ ~burst.started
    /\ \E cost \in 1 .. MaxCost : Allow(burst.key, cost)

\* The burst starts, on a full bucket.
BurstStart ==
    /\ ~burst.started
    /\ FullBucket(acfg, burst.key, clk)
    /\ burst' = [burst EXCEPT !.started = TRUE]
    /\ UNCHANGED algoVars
    /\ UNCHANGED notBurstVars

\* One call of the burst: allow(key, 1) at t0. The burst goes one call
\* beyond the first rejection.
BurstAllow ==
    /\ burst.started
    /\ Len(burst.results) <= Capacity(acfg) + 1
    /\ AllowStep(burst.key, 1)
    /\ burst' = [burst EXCEPT !.results =
                    Append(@, [allowed |-> last'.allowed, err |-> last'.err,
                               retryAfter |-> last'.retryAfter])]

(***************************************************************************)
(* The composite admission coordinator (section 4.5)                       *)
(*                                                                         *)
(* One request is checked against an ordered list of dimensions, each a    *)
(* strategy with its own engine.  The coordinator derives the keys,        *)
(* evaluates the dimensions in order with the real Allow, and on the first *)
(* denial refunds the dimensions it had admitted, last admitted first.     *)
(* Other traffic reaches the engines before the request, not during it.    *)
(* Time may pass between any two storage calls.                            *)
(***************************************************************************)

\* The clock of the coordinator stops advancing at MaxCompTime.
MaxCompTime == 1

\* The number of direct calls on the engines before the request.
MaxDirect == 2

\* The strategies of the dimensions, and the engine each one is limited by.
DimStrategies == {"ip", "user", "endpoint", "global"}

DimAlgorithm(s) ==
    CASE s = "ip"       -> TokenBucket
      [] s = "user"     -> FixedWindow
      [] s = "endpoint" -> SlidingWindow
      [] OTHER          -> LeakyBucket

\* Every dimension allows one unit per tick.
DimConfig(s) == [Rate |-> 1, Window |-> 1, BurstSize |-> 0, Algorithm |-> DimAlgorithm(s)]

\* The requests' contexts: one with every attribute, one without endpoint.
CompContexts ==
    {[IP |-> "a", UserID |-> "a", Endpoint |-> e, SessionID |-> "", Custom |-> NilMap] :
        e \in {"a", ""}}

\* The RateKeys the dimensions can derive.
DimKeys == {Key(c, s) : c \in CompContexts, s \in DimStrategies} \ {""}

\* The ordered lists of 2 to 4 distinct dimensions.
DimOrders ==
    {d \in UNION {[1 .. n -> DimStrategies] : n \in 2 .. 4} :
        \A i, j \in DOMAIN d : i # j => d[i] # d[j]}

NoRequest ==
    [phase |-> "idle", rc |-> CHOOSE c \in CompContexts : c.Endpoint = "a",
     direct |-> 0, dims |-> <<>>, cost |-> 0, i |-> 0, denied |-> 0,
     before |-> [k \in DimKeys |-> Absent], refunded |-> <<>>, result |-> "none"]

CompInit ==
    /\ cclk = 0
    /\ cstore = [k \in DimKeys |-> Absent]
    /\ creq = NoRequest

\* No coordinator is running.
CompIdle ==
    /\ cclk = 0
    /\ cstore = [k \in DimKeys |-> Absent]
    /\ creq = [NoRequest EXCEPT !.phase = "off"]

\* The state an engine works on: the stored one, or a fresh one on NotFound.
DimLoaded(s, k, t) ==
    IF cstore[k].exists THEN cstore[k].state ELSE FreshState(DimConfig(s), t)

\* allow(k, cost) of the engine of dimension s at the coordinator's time.
DimOutcome(s, k, cost) ==
    AllowOutcome(DimConfig(s), DimLoaded(s, k, cclk), cost, cclk)

\* The store after the engine of dimension s persisted its outcome.
DimStored(k, out) ==
    IF out.persist THEN [cstore EXCEPT ![k] = Present(out.state)] ELSE cstore

\* The refund without the credit: the state is left as the admission left it.
Refund_NoCredit(c, st, cost) == st

\* The equal-and-opposite refund of an admitted cost: tokens go back into
\* the bucket, the count and the level go down, the timestamps the
\* admission appended are removed.
Refund(c, st, cost) ==
    CASE c.Algorithm = TokenBucket ->
           [st EXCEPT !.Tokens = Min(Capacity(c) * c.Window, @ + cost * c.Window)]
      [] c.Algorithm = FixedWindow ->
           [st EXCEPT !.Count = Max(0, @ - cost)]
      [] c.Algorithm = SlidingWindow ->
           [st EXCEPT !.Timestamps = SubSeq(@, 1, Max(0, Len(@) - cost))]
      [] c.Algorithm = LeakyBucket ->
           [st EXCEPT !.Level = Max(0, @ - cost * c.Window)]

\* Time passes, between requests or between two storage calls of one.
CompTick ==
    /\ cclk < MaxCompTime
    /\ cclk' = cclk + 1
    /\ UNCHANGED <<cstore, creq>>
    /\ UNCHANGED notCompVars

\* Other traffic: a direct allow(k, cost) on the engine of one dimension,
\* before the request of the coordinator.
CompDirect(s, cost) ==
    LET k == Key(creq.rc, s)
        out == DimOutcome(s, k, cost)
    IN  /\ creq.phase = "idle"
        /\ creq.direct < MaxDirect
        /\ cstore' = DimStored(k, out)
        /\ creq' = [creq EXCEPT !.direct = @ + 1]
        /\ UNCHANGED cclk
        /\ UNCHANGED notCompVars

\* (a) The coordinator takes a request and derives one RateKey per
\* dimension; an empty key is a configuration error and nothing is
\* evaluated.
CompStart(c, dims, cost) ==
    /\ creq.phase = "idle"
    /\ creq' =
          IF \E i \in DOMAIN dims : Key(c, dims[i]) = ""
          THEN [NoRequest EXCEPT !.phase = "done", !.rc = c, !.dims = dims,
                                 !.cost = cost, !.before = cstore,
                                 !.result = "configuration_error"]
          ELSE [NoRequest EXCEPT !.phase = "eval", !.rc = c, !.dims = dims,
                                 !.cost = cost, !.i = 1, !.before = cstore]
    /\ UNCHANGED <<cclk, cstore>>
    /\ UNCHANGED notCompVars

\* What the coordinator reports when a dimension did not admit: the denial,
\* or the engine's error.
Refusal(out) == IF out.err = "none" THEN "denied" ELSE out.err

\* (b) The real Allow of the next dimension; (c) on a denial the remaining
\* dimensions are skipped and the refunds start from the dimension admitted
\* last; (d) after the last admission the request is admitted.
CompEval ==
    LET s == creq.dims[creq.i]
        k == Key(creq.rc, s)
        out == DimOutcome(s, k, creq.cost)
    IN  /\ creq.phase = "eval"
        /\ cstore' = DimStored(k, out)
        /\ creq' =
              IF out.allowed
              THEN IF creq.i = Len(creq.dims)
                   THEN [creq EXCEPT !.phase = "done", !.result = "admitted"]
                   ELSE [creq EXCEPT !.i = @ + 1]
              ELSE IF creq.i = 1
                   THEN [creq EXCEPT !.phase = "done", !.denied = creq.i,
                                     !.result = Refusal(out)]
                   ELSE [creq EXCEPT !.phase = "refund", !.denied = creq.i,
                                     !.i = @ - 1, !.result = Refusal(out)]
        /\ UNCHANGED cclk
        /\ UNCHANGED notCompVars

\* (c) The refund of one admitted dimension, in reverse admission order.
CompRefund ==
    LET s == creq.dims[creq.i]
        k == Key(creq.rc, s)
    IN  /\ creq.phase = "refund"
        /\ cstore' = [cstore EXCEPT ![k] =
                         Present(Refund(DimConfig(s), cstore[k].state, creq.cost))]
        /\ creq' =
              IF creq.i = 1
              THEN [creq EXCEPT !.phase = "done", !.refunded = Append(@, s)]
              ELSE [creq EXCEPT !.i = @ - 1, !.refunded = Append(@, s)]
        /\ UNCHANGED cclk
        /\ UNCHANGED notCompVars

(***************************************************************************)
(* The fallback controller (sections 4.6 and 5)                            *)
(*                                                                         *)
(* A circuit breaker around the storage calls.  Concurrent requests are    *)
(* routed under the controller's lock, their storage calls run outside it *)
(* and may resolve in any order, and every outcome is handled under the    *)
(* lock again.  A request routed while Closed may resolve after the        *)
(* breaker has moved on.                                                   *)
(***************************************************************************)

\* Largest failure threshold N.
MaxThreshold == 2

\* Number of requests that may be in flight at once.
MaxInFlight == 2

\* The controller's clock stops advancing at MaxFbTime.
MaxFbTime == 2

\* The cooldown interval, in ticks.
Cooldown == 1

Requests == 1 .. MaxInFlight

FbInit ==
    /\ fcfg \in [threshold : 1 .. MaxThreshold, strategy : {AllowAll, DenyAll, LocalMemory}]
    /\ fb = [state |-> "Closed", failures |-> 0, openedAt |-> 0]
    /\ fclk = 0
    /\ freq = [r \in Requests |-> "none"]
    /\ fhist = [trips |-> 0, recoveries |-> 0, stale |-> 0]

\* No fallback controller is running.
FbIdle ==
    /\ fcfg = [threshold |-> 1, strategy |-> AllowAll]
    /\ fb = [state |-> "Off", failures |-> 0, openedAt |-> 0]
    /\ fclk = 0
    /\ freq = [r \in Requests |-> "none"]
    /\ fhist = [trips |-> 0, recoveries |-> 0, stale |-> 0]

\* Time passes.
FbTick ==
    /\ fclk < MaxFbTime
    /\ fclk' = fclk + 1
    /\ UNCHANGED <<fcfg, fb, freq, fhist>>
    /\ UNCHANGED notFbVars

\* Request r arrives while Closed: it goes to the primary storage.
FbRoutePrimary(r) ==
    /\ freq[r] = "none"
    /\ fb.state = "Closed"
    /\ freq' = [freq EXCEPT ![r] = "primary"]
    /\ UNCHANGED <<fcfg, fb, fclk, fhist>>
    /\ UNCHANGED notFbVars

\* Request r arrives while Open and the cooldown has passed: the breaker
\* goes HalfOpen and r is the probe.
FbRouteProbe(r) ==
    /\ freq[r] = "none"
    /\ fb.state = "Open"
    /\ fclk >= fb.openedAt + Cooldown
    /\ fb' = [fb EXCEPT !.state = "HalfOpen"]
    /\ freq' = [freq EXCEPT ![r] = "probe"]
    /\ UNCHANGED <<fcfg, fclk, fhist>>
    /\ UNCHANGED notFbVars

\* Request r arrives while Open within the cooldown, or while HalfOpen
\* with the probe in flight: it is served by the fallback strategy.
FbRouteFallback(r) ==
    /\ freq[r] = "none"
    /\ \/ fb.state = "Open" /\ fclk < fb.openedAt + Cooldown
       \/ fb.state = "HalfOpen"
    /\ freq' = [freq EXCEPT ![r] = fcfg.strategy]
    /\ UNCHANGED <<fcfg, fb, fclk, fhist>>
    /\ UNCHANGED notFbVars

\* The fallback strategy has answered request r.
FbFallbackReturn(r) ==
    /\ freq[r] \in {AllowAll, DenyAll, LocalMemory}
    /\ freq' = [freq EXCEPT ![r] = "none"]
    /\ UNCHANGED <<fcfg, fb, fclk, fhist>>
    /\ UNCHANGED notFbVars

\* The storage call of request r succeeded. A probe closes the breaker; a
\* call routed while Closed ends the run of consecutive failures, and
\* changes nothing when the breaker has left Closed since.
FbSuccess(r) ==
    /\ freq[r] \in {"primary", "probe"}
    /\ freq' = [freq EXCEPT ![r] = "none"]
    /\ IF freq[r] = "probe"
       THEN /\ fb' = [fb EXCEPT !.state = "Closed", !.failures = 0]
            /\ fhist' = [fhist EXCEPT !.recoveries = @ + 1]
       ELSE /\ fb' = IF fb.state = "Closed" THEN [fb EXCEPT !.failures = 0] ELSE fb
            /\ UNCHANGED fhist
    /\ UNCHANGED <<fcfg, fclk>>
    /\ UNCHANGED notFbVars

\* The failure handler tripping the breaker whatever state it is in.
OnPrimaryFailure_NoStateCheck ==
    IF fb.failures + 1 >= fcfg.threshold
    THEN [fb |-> [state |-> "Open", failures |-> 0, openedAt |-> fclk],
          fhist |-> [fhist EXCEPT !.trips = @ + 1]]
    ELSE [fb |-> [fb EXCEPT !.failures = @ + 1], fhist |-> fhist]

\* The controller handling, under its lock, the storage error of a call
\* routed while Closed: the N-th consecutive failure trips the breaker; a
\* failure that arrives when the breaker has left Closed is stale and
\* changes nothing.
OnPrimaryFailure ==
    IF fb.state # "Closed"
    THEN [fb |-> fb, fhist |-> [fhist EXCEPT !.stale = @ + 1]]
    ELSE IF fb.failures + 1 >= fcfg.threshold
    THEN [fb |-> [state |-> "Open", failures |-> 0, openedAt |-> fclk],
          fhist |-> [fhist EXCEPT !.trips = @ + 1]]
    ELSE [fb |-> [fb EXCEPT !.failures = @ + 1], fhist |-> fhist]

\* The storage call of request r failed. A failed probe reopens the breaker.
FbFailure(r) ==
    /\ freq[r] \in {"primary", "probe"}
    /\ freq' = [freq EXCEPT ![r] = "none"]
    /\ IF freq[r] = "probe"
       THEN /\ fb' = [fb EXCEPT !.state = "Open", !.openedAt = fclk]
            /\ UNCHANGED fhist
       ELSE /\ fb' = OnPrimaryFailure.fb
            /\ fhist' = OnPrimaryFailure.fhist
    /\ UNCHANGED <<fcfg, fclk>>
    /\ UNCHANGED notFbVars

(***************************************************************************)
(* Specifications                                                          *)
(***************************************************************************)

KeyNext == KeyCall

\* Key derivation over every context and strategy name.
InitKey ==
    KeyInit /\ CfgIdle /\ ErrIdle /\ ClockIdle /\ AlgoIdle /\ PairIdle /\ ObsInit /\ BurstIdle
    /\ CompIdle /\ FbIdle
SpecKey == InitKey /\ [][KeyNext]_vars

\* Two key derivations side by side.
KeyPairNext == KeyCall \/ KeyCall2
InitKeyPair ==
    PairInit /\ CfgIdle /\ ErrIdle /\ ClockIdle /\ AlgoIdle /\ ObsInit /\ BurstIdle
    /\ CompIdle /\ FbIdle
SpecKeyPair == InitKeyPair /\ [][KeyPairNext]_vars

CfgNext ==
    \/ ConfigValidateCall
    \/ AlgorithmTypeValidateCall
    \/ AlgorithmTypeValidatePkgCall
    \/ FallbackStrategyValidateCall
    \/ DefaultOptionsCall
    \/ ValidateOptionsCall

\* Validation of every configuration and type name.
InitCfg ==
    CfgInit /\ KeyIdle /\ ErrIdle /\ ClockIdle /\ AlgoIdle /\ PairIdle /\ ObsInit /\ BurstIdle
    /\ CompIdle /\ FbIdle
SpecCfg == InitCfg /\ [][CfgNext]_vars

ErrNext ==
    \/ ErrorsIsCall
    \/ WrapContextErrorCall
    \/ ErrorsIsWrappedCall

\* Error matching over every error value.
InitErr ==
    ErrInit /\ KeyIdle /\ CfgIdle /\ ClockIdle /\ AlgoIdle /\ PairIdle /\ ObsInit /\ BurstIdle
    /\ CompIdle /\ FbIdle
SpecErr == InitErr /\ [][ErrNext]_vars

\* wrapContextError over every error value, joined ones included.
InitWrap ==
    WrapInit /\ KeyIdle /\ CfgIdle /\ ClockIdle /\ AlgoIdle /\ PairIdle /\ ObsInit /\ BurstIdle
    /\ CompIdle /\ FbIdle
SpecWrap == InitWrap /\ [][ErrNext]_vars

ClockNext ==
    \E g \in Procs :
        \/ \E m \in Methods : \E a \in ArgsOf(m) : Call(g, m, a)
        \/ NowStep(g)
        \/ WriterStep(g)

\* Goroutines calling every method of one Mock.
InitClock ==
    ClockInit /\ KeyIdle /\ CfgIdle /\ ErrIdle /\ AlgoIdle /\ PairIdle /\ ObsInit /\ BurstIdle
    /\ CompIdle /\ FbIdle
SpecClock == InitClock /\ [][ClockNext]_vars

ClockAutoNext ==
    \E g \in Procs :
        \/ Call(g, "Now", 0)
        \/ NowStep(g)

\* Goroutines calling Now, and nothing else, on an auto-advancing Mock.
InitClockAuto ==
    ClockAutoInit /\ KeyIdle /\ CfgIdle /\ ErrIdle /\ AlgoIdle /\ PairIdle /\ ObsInit /\ BurstIdle
    /\ CompIdle /\ FbIdle
SpecClockAuto == InitClockAuto /\ [][ClockAutoNext]_vars

ClockAdvNext ==
    \E g \in Procs :
        \/ Call(g, "Now", 0)
        \/ Call(g, "Since", 0)
        \/ \E d \in AdvanceDurations : Call(g, "Advance", d)
        \/ NowStep(g)
        \/ AdvanceStep(g)

\* Goroutines calling Now, Since and Advance on an auto-advancing Mock.
InitClockAdv ==
    ClockAutoInit /\ ObsInit /\ KeyIdle /\ CfgIdle /\ ErrIdle /\ AlgoIdle /\ PairIdle /\ BurstIdle
    /\ CompIdle /\ FbIdle
SpecClockAdv == InitClockAdv /\ [][ClockAdvNext]_vars

AlgoNext ==
    \/ Tick
    \/ \E k \in RateKeys : \E cost \in 0 .. MaxCost : Allow(k, cost)
    \/ \E k \in RateKeys : Reset(k)

\* One engine of each algorithm and configuration serving Allow calls.
InitAlgo ==
    AlgoInit /\ KeyIdle /\ CfgIdle /\ ErrIdle /\ ClockIdle /\ PairIdle /\ ObsInit /\ BurstIdle
    /\ CompIdle /\ FbIdle
SpecAlgo == InitAlgo /\ [][AlgoNext]_vars

BurstNext ==
    \/ BurstTick
    \/ BurstPrefixAllow
    \/ BurstStart
    \/ BurstAllow

\* A burst of calls of cost 1 on a full token bucket.
InitBurst ==
    BurstInit /\ ObsInit /\ KeyIdle /\ CfgIdle /\ ErrIdle /\ ClockIdle /\ PairIdle
    /\ CompIdle /\ FbIdle
SpecBurst == InitBurst /\ [][BurstNext]_vars

CompNext ==
    \/ CompTick
    \/ \E s \in DimStrategies : CompDirect(s, 1)
    \/ \E c \in CompContexts : \E dims \in DimOrders : \E cost \in 1 .. MaxCost :
           CompStart(c, dims, cost)
    \/ CompEval
    \/ CompRefund

\* Direct traffic, then one request through the coordinator.
InitComp ==
    CompInit /\ ObsInit /\ KeyIdle /\ CfgIdle /\ ErrIdle /\ ClockIdle /\ AlgoIdle
    /\ PairIdle /\ BurstIdle /\ FbIdle
SpecComp == InitComp /\ [][CompNext]_vars

FbNext ==
    \/ FbTick
    \/ \E r \in Requests :
          \/ FbRoutePrimary(r)
          \/ FbRouteProbe(r)
          \/ FbRouteFallback(r)
          \/ FbFallbackReturn(r)
          \/ FbSuccess(r)
          \/ FbFailure(r)

\* Concurrent requests through the fallback controller.
InitFb ==
    FbInit /\ ObsInit /\ KeyIdle /\ CfgIdle /\ ErrIdle /\ ClockIdle /\ AlgoIdle
    /\ PairIdle /\ BurstIdle /\ CompIdle
SpecFb == InitFb /\ [][FbNext]_vars

(***************************************************************************)
(* Properties of RequestContext.Key                                        *)
(***************************************************************************)

BuiltInStrategies == {"ip", "user", "endpoint", "session", "global"}

\* The strategy names a key of c.Custom that no built-in shadows.
IsCustom(c, s) ==
    s \notin BuiltInStrategies /\ ~c.Custom.isNil /\ s \in DOMAIN c.Custom.m

\* The attribute of c the strategy s names ("" when it names none).
AttrOf(c, s) ==
    CASE s = "ip"       -> c.IP
      [] s = "user"     -> c.UserID
      [] s = "endpoint" -> c.Endpoint
      [] s = "session"  -> c.SessionID
      [] IsCustom(c, s) -> c.Custom.m[s]
      [] OTHER          -> ""

\* s is neither a built-in strategy nor a key of c.Custom.
UnknownStrategy(c, s) == s \notin BuiltInStrategies /\ ~IsCustom(c, s)

\* s names an attribute (built-in or custom) whose value is the empty string.
AbsentAttribute(c, s) ==
    (s \in {"ip", "user", "endpoint", "session"} \/ IsCustom(c, s)) /\ AttrOf(c, s) = ""

\* C1: Key returns the empty key whenever the strategy is unknown or names
\* an attribute whose value is the empty string, built-in or custom.
C1_EmptyKeyWhenUnknownOrAbsent ==
    (keyPc = "done" /\ (UnknownStrategy(rc, strategy) \/ AbsentAttribute(rc, strategy)))
        => key = ""

\* C2: a built-in strategy with a non-empty attribute v yields s:v, "global"
\* yields "global" whatever the context holds, and a name that is not
\* built-in and is a key of Custom with value v yields s:v.
C2_KeyFormat ==
    keyPc = "done" =>
        /\ (strategy \in {"ip", "user", "endpoint", "session"} /\ AttrOf(rc, strategy) # "")
              => key = strategy \o ":" \o AttrOf(rc, strategy)
        /\ strategy = "global" => key = "global"
        /\ IsCustom(rc, strategy) => key = strategy \o ":" \o rc.Custom.m[strategy]

\* A custom strategy has been derived next to a built-in attribute.
C2_Witness ==
    /\ keyPc = "done"
    /\ strategy = "tenant"
    /\ rc.IP = "a"
    /\ key = "tenant:a"

(***************************************************************************)
(* Properties of the validation                                            *)
(***************************************************************************)

ValidAlgorithms == {"token_bucket", "fixed_window", "sliding_window", "leaky_bucket"}
ValidFallbacks == {"allow_all", "deny_all", "local_memory"}

\* C3: Config.Validate returns nil exactly when rate > 0, window > 0,
\* burstSize >= 0 and the algorithm name is one of the four.
C3_ValidateIffWellFormed ==
    cfgErr # Pending =>
        (cfgErr = Nil <=>
            /\ cfg.Rate > 0
            /\ cfg.Window > 0
            /\ cfg.BurstSize >= 0
            /\ cfg.Algorithm \in ValidAlgorithms)

\* C9: both AlgorithmType.Validate implementations return nil exactly for
\* the four algorithm names, an error with field "algorithm" otherwise,
\* and agree on every input.
C9_AlgorithmTypeValidate ==
    /\ algErr # Pending =>
          /\ algErr = Nil <=> name \in ValidAlgorithms
          /\ algErr # Nil => algErr.Field = "algorithm"
    /\ algErrPkg # Pending =>
          /\ algErrPkg = Nil <=> name \in ValidAlgorithms
          /\ algErrPkg # Nil => algErrPkg.Field = "algorithm"
    /\ (algErr # Pending /\ algErrPkg # Pending) => (algErr = Nil <=> algErrPkg = Nil)

\* Both implementations have rejected the empty string, and both have
\* accepted nothing else than they should.
C9_Witness ==
    /\ name = ""
    /\ algErr # Pending /\ algErr # Nil
    /\ algErrPkg # Pending /\ algErrPkg # Nil

\* C10: FallbackStrategy.Validate returns nil exactly for allow_all,
\* deny_all and local_memory, an InvalidConfigError with field
\* "fallback_strategy" otherwise, and the defaults of defaultOptions
\* (token_bucket, allow_all) pass their validation.
C10_FallbackStrategyValidate ==
    /\ fbErr # Pending =>
          /\ fbErr = Nil <=> name \in ValidFallbacks
          /\ fbErr # Nil =>
                (fbErr.type = "InvalidConfigError" /\ fbErr.Field = "fallback_strategy")
    /\ optsErr # Pending =>
          /\ opts.algorithm = "token_bucket"
          /\ opts.fallbackStrategy = "allow_all"
          /\ optsErr.algorithm = Nil
          /\ optsErr.fallbackStrategy = Nil

\* An algorithm name has been rejected as a fallback strategy and the
\* default options have been validated.
C10_Witness ==
    /\ name = "token_bucket"
    /\ fbErr # Pending /\ fbErr # Nil
    /\ optsErr # Pending

(***************************************************************************)
(* Properties of the error types                                           *)
(***************************************************************************)

CancellationSentinels == {ErrContextCanceled, ErrContextDeadlineExceeded}
OtherKindSentinels == {ErrStorageUnavailable, ErrRateLimitExceeded, ErrInvalidConfig}

\* C7: every LimitExceededError matches ErrRateLimitExceeded and no other
\* sentinel, every InvalidConfigError matches ErrInvalidConfig and no other
\* sentinel, and every StorageError matches ErrStorageUnavailable whatever
\* its fields and its underlying Err.
C7_MatchesOwnSentinel ==
    (errMatches # PendingSet /\ err # <<>>) =>
        /\ err[1].type = "LimitExceededError" => errMatches = {ErrRateLimitExceeded}
        /\ err[1].type = "InvalidConfigError" => errMatches = {ErrInvalidConfig}
        /\ err[1].type = "StorageError" => ErrStorageUnavailable \in errMatches

\* A StorageError nested in a StorageError around a LimitExceededError has
\* been matched against every sentinel.
C7_Witness ==
    /\ Len(err) = 3
    /\ err[1].type = "StorageError"
    /\ err[3].type = "LimitExceededError"
    /\ errMatches = {ErrStorageUnavailable, ErrRateLimitExceeded}

\* C8: no error passed through wrapContextError matches both a
\* cancellation sentinel and the sentinel of another kind.
C8_CancellationDistinct ==
    wrappedMatches # PendingSet =>
        ~ /\ wrappedMatches \cap CancellationSentinels # {}
          /\ wrappedMatches \cap OtherKindSentinels # {}

(***************************************************************************)
(* Properties of the Mock clock                                            *)
(***************************************************************************)

\* The values the completed calls returned.
Returned == {rets[i].val : i \in DOMAIN rets}

\* C5: on an auto-advancing Mock at time T with only Now calls, the calls
\* return times among T, T+step, T+2*step, ..., and the k completed calls
\* return k pairwise distinct times, under any interleaving.
C5_NowReturnsDistinctTimes ==
    /\ \A i, j \in DOMAIN rets : i # j => rets[i].val # rets[j].val
    /\ Returned \subseteq {StartTime + k * step : k \in 0 .. calls - 1}

\* The statements that write a field of the Mock, and those that read one.
WriteStatements == {"Now.add", "write"}
ReadStatements == {"Now.read", "Now.test", "Now.add"}

\* C6: every write of now/auto/step is made holding the mutex exclusively,
\* every read holding it in read or write mode, and a goroutine that is in
\* no method holds no lock.
C6_LockDiscipline ==
    \A g \in Procs :
        /\ pc[g] \in WriteStatements => HoldsExclusive(g)
        /\ pc[g] \in ReadStatements => HoldsAny(g)
        /\ pc[g] = "idle" => (~HoldsAny(g) /\ mu.w # g)

\* After a SetAutoAdvance call has returned, one goroutine holds the write
\* lock inside Now, about to advance the time, while another has called
\* Set and has yet to get the lock.
C6_Witness ==
    \E g, h \in Procs :
        /\ auto
        /\ pc[g] = "Now.add"
        /\ HoldsExclusive(g)
        /\ pc[h] = "Lock"
        /\ op[h].name = "Set"

(***************************************************************************)
(* Properties of the algorithm engines                                     *)
(***************************************************************************)

\* What the last call's key held before the call, as the call loaded it.
LastBefore == IF last.before.exists THEN last.before.state ELSE FreshState(acfg, last.at)

\* C4: an Allow call that returns allowed = false leaves the persisted
\* state of its key as it was before the call; the only exception is
\* Sliding Window, which may remove expired timestamps.
C4_DenialLeavesStateUnchanged ==
    (last.err # "no_call" /\ ~last.allowed) =>
        \/ store[last.key] = last.before
        \/ /\ acfg.Algorithm = SlidingWindow
           /\ store[last.key] = Present(Pruned(acfg, LastBefore, last.at))

(***************************************************************************)
(* Further properties of the validation and of wrapContextError            *)
(***************************************************************************)

\* The error Config.Validate owes for the field f holding v, as far as the
\* caller can tell: one ConfigError naming the field and its value.
Reports(e, f, v) == e # Nil /\ e.type = "ConfigError" /\ e.Field = f /\ e.Value = v

\* Validate has returned the error of the first failing check, in the
\* order rate, window, burst_size.
FirstFailingCheck ==
    cfgErr # Pending =>
        IF cfg.Rate <= 0 THEN Reports(cfgErr, "rate", cfg.Rate)
        ELSE IF cfg.Window <= 0 THEN Reports(cfgErr, "window", cfg.Window)
        ELSE IF cfg.BurstSize < 0 THEN Reports(cfgErr, "burst_size", cfg.BurstSize)
        ELSE cfgErr = Nil

\* C16: when several fields are invalid, Config.Validate reports exactly
\* one ConfigError, for the first failing check in the order rate, window,
\* burst_size, with that field's name and offending value; and no step
\* modifies the Config.
C16_FirstFailingCheckReported == [](FirstFailingCheck) /\ [][cfg' = cfg]_vars

\* All three fields are invalid and Validate has reported the rate.
C16_Witness ==
    /\ cfg.Rate <= 0 /\ cfg.Window <= 0 /\ cfg.BurstSize < 0
    /\ cfgErr # Pending
    /\ cfgErr.Field = "rate"

\* The chain e holds the context error id: as a node of the chain or as
\* one of the errors a joined node holds.
ChainHolds(e, id) ==
    \E i \in DOMAIN e :
        \/ (e[i].type = "sentinel" /\ e[i].id = id)
        \/ (e[i].type = "joinError" /\ id \in e[i].ids)

\* C14: wrapContextError returns nil for nil, ErrContextCanceled for every
\* error whose chain holds context.Canceled, otherwise
\* ErrContextDeadlineExceeded for every error whose chain holds
\* context.DeadlineExceeded, and every other error unchanged; the canceled
\* check wins when the chain holds both.
C14_WrapContextError ==
    wrapped # PendingErr =>
        IF err = <<>> THEN wrapped = <<>>
        ELSE IF ChainHolds(err, ContextCanceled)
             THEN wrapped = <<Sentinel(ErrContextCanceled)>>
        ELSE IF ChainHolds(err, ContextDeadlineExceeded)
             THEN wrapped = <<Sentinel(ErrContextDeadlineExceeded)>>
        ELSE wrapped = err

\* A StorageError whose cause joins context.Canceled and
\* context.DeadlineExceeded has been wrapped into ErrContextCanceled.
C14_Witness ==
    /\ Len(err) = 2
    /\ err[1].type = "StorageError"
    /\ err[2].type = "joinError"
    /\ err[2].ids = {ContextCanceled, ContextDeadlineExceeded}
    /\ wrapped = <<Sentinel(ErrContextCanceled)>>

(***************************************************************************)
(* Properties of two key derivations                                       *)
(***************************************************************************)

\* C18: the key derivation is injective. Two derivations that return the
\* same non-empty key used the same strategy name and the same attribute
\* value, whether they ran over one RequestContext or over two, even when
\* values and custom names hold the ':' separator.
C18_KeyInjective ==
    (keyPc = "done" /\ keyPc2 = "done" /\ key # "" /\ key = key2)
        => (strategy = strategy2 /\ AttrOf(rc, strategy) = AttrOf(rc2, strategy2))

(***************************************************************************)
(* Properties of the Mock clock under Advance and DisableAutoAdvance       *)
(***************************************************************************)

\* A step that changes the stored time from within Set or Advance.
SetOrAdvanceWrites ==
    \E g \in Procs :
        pc[g] = "write" /\ pc'[g] = "Unlock" /\ op[g].name \in {"Set", "Advance"}

\* C15: once a DisableAutoAdvance call has returned, and until a
\* SetAutoAdvance enables auto-advance again, the stored time changes only
\* through Set or Advance: no Now call advances it, not even one that was
\* already in progress when DisableAutoAdvance ran.
C15_NoAdvanceAfterDisable ==
    [][(disabled /\ now' # now) => SetOrAdvanceWrites]_vars

\* No call is in progress.
Quiescent == \A g \in Procs : pc[g] = "idle"

\* The time the completed calls account for.
AccountedTime == StartTime + Len(rets) * step + advanced

\* C17: with auto-advance on at a fixed step and no Set or
\* DisableAutoAdvance, once the calls have completed the stored time is the
\* start plus one step per completed Now or Since plus the durations of the
\* completed Advance calls, whatever the interleaving; and the stored time
\* never decreases.
C17_AdvancesAddUp ==
    [](Quiescent => now = AccountedTime) /\ [][now' >= now]_vars

\* Two Now or Since calls and an Advance have completed.
C17_Witness ==
    /\ Quiescent
    /\ Len(rets) = 2
    /\ advanced > 0
    /\ now = StartTime + 2 * step + advanced

(***************************************************************************)
(* Properties of the Token Bucket burst                                    *)
(***************************************************************************)

\* burstSize as the configuration documents it.
BurstSizeOf(c) == IF c.BurstSize = 0 THEN c.Rate ELSE c.BurstSize

Used(s, e) ==
    IF ~e.exists THEN 0
    ELSE CASE DimAlgorithm(s) = TokenBucket ->
                Capacity(DimConfig(s)) * DimConfig(s).Window - e.state.Tokens
           [] DimAlgorithm(s) = FixedWindow   -> e.state.Count
           [] DimAlgorithm(s) = SlidingWindow -> Len(e.state.Timestamps)
           [] DimAlgorithm(s) = LeakyBucket   -> e.state.Level

\* The sequence q in reverse.
Reverse(q) == [i \in 1 .. Len(q) |-> q[Len(q) + 1 - i]]

\* C12: when a dimension has denied the request, no other dimension holds
\* more used capacity than before the request, for every order of 2 to 4
\* dimensions; the dimensions admitted before the denial were refunded in
\* reverse admission order and those after it were not evaluated.
C12_DenialConsumesNothing ==
    (creq.phase = "done" /\ creq.result = "denied") =>
        /\ \A j \in DOMAIN creq.dims :
              j # creq.denied =>
                 Used(creq.dims[j], cstore[Key(creq.rc, creq.dims[j])])
                    <= Used(creq.dims[j], creq.before[Key(creq.rc, creq.dims[j])])
        /\ \A j \in DOMAIN creq.dims :
              j > creq.denied =>
                 cstore[Key(creq.rc, creq.dims[j])]
                    = creq.before[Key(creq.rc, creq.dims[j])]
        /\ creq.refunded = Reverse(SubSeq(creq.dims, 1, creq.denied - 1))

\* The last of four dimensions denied a request after the other three had
\* admitted it, and the three have been refunded.
C12_Witness ==
    /\ creq.phase = "done"
    /\ creq.result = "denied"
    /\ Len(creq.dims) = 4
    /\ creq.denied = 4
    /\ Len(creq.refunded) = 3

(***************************************************************************)
(* Properties of the fallback controller                                   *)
(***************************************************************************)

\* The changes of state the controller may make.
FallbackEdges ==
    {<<"Closed", "Open">>, <<"Open", "HalfOpen">>,
     <<"HalfOpen", "Closed">>, <<"HalfOpen", "Open">>}

\* A step changes the state along one of the four edges only, and trips
\* the breaker only by moving it from Closed to Open.
FallbackStepOk ==
    /\ fb'.state # fb.state => <<fb.state, fb'.state>> \in FallbackEdges
    /\ fhist'.trips # fhist.trips =>
          /\ fb.state = "Closed"
          /\ fb'.state = "Open"
          /\ fhist'.trips = fhist.trips + 1

\* C13: the Fallback Controller's state changes only along Closed -> Open,
\* Open -> HalfOpen, HalfOpen -> Closed and HalfOpen -> Open, never from
\* Open to Closed nor from Closed to HalfOpen; and failures that arrive
\* together trip the breaker once: it trips at most once per stay in
\* Closed.
C13_FallbackTransitions ==
    [][FallbackStepOk]_vars /\ [](fhist.trips <= fhist.recoveries + 1)

\* The breaker has tripped once and a failure of a request that had been
\* routed while Closed arrived afterwards and was ignored.
C13_Witness ==
    /\ fb.state = "Open"
    /\ fhist.trips = 1
    /\ fhist.recoveries = 0
    /\ fhist.stale > 0

====
